---- MODULE Spec2Model ----
(***************************************************************************)
(* Model of scripts/extract_mcp_tools.py: the MCP tool extractor for Port. *)
(*                                                                         *)
(* Strings are sequences of one-character strings, so that the regular     *)
(* expressions, str.replace and shlex.split are computed character by      *)
(* character as the Python code computes them.                             *)
(*                                                                         *)
(* Two specifications share the variables:                                 *)
(*   Spec         the batch run of main()                                  *)
(*   ResolveSpec  replace_secret_placeholders applied to a command string  *)
(*                and then to its own result                               *)
(***************************************************************************)
EXTENDS Integers, Sequences, FiniteSets, TLC

\* ------------------------------------------------------------------ bounds

\* Number of fragments a command string of ResolveSpec is built from.
MaxFrags == 3

\* Python's None where a string or a list is expected (no string is equal to
\* it: strings are sequences of single characters).
None == <<"None">>

\* ------------------------------------------------------------ characters

UpperChars ==
    {"A", "B", "C", "D", "E", "F", "G", "H", "I", "J", "K", "L", "M",
     "N", "O", "P", "Q", "R", "S", "T", "U", "V", "W", "X", "Y", "Z"}

\* The character class [A-Z_] of both placeholder patterns.
NameChars == UpperChars \cup {"_"}

\* The literal prefix of pattern1, r'YOUR__([A-Z_]+)'.
Pattern1Prefix == <<"Y", "O", "U", "R", "_", "_">>

\* The literal prefix of pattern2, r'<YOUR_([A-Z_]+)>'.
Pattern2Prefix == <<"<", "Y", "O", "U", "R", "_">>

\* The literal suffix of pattern2.
Pattern2Suffix == <<">">>

\* s[p..] starts with the literal lit.
StartsWithAt(s, p, lit) ==
    /\ p + Len(lit) - 1 <= Len(s)
    /\ SubSeq(s, p, p + Len(lit) - 1) = lit

\* Index of the last character of the maximal run of [A-Z_] starting at p
\* (p - 1 when s[p] is not in the class): the greedy match of [A-Z_]+.
RECURSIVE NameRunEnd(_, _)
NameRunEnd(s, p) ==
    IF p <= Len(s) /\ s[p] \in NameChars THEN NameRunEnd(s, p + 1) ELSE p - 1

\* re.findall(pattern1, s) scanning from p: leftmost, non-overlapping, greedy.
RECURSIVE FindAll1From(_, _)
FindAll1From(s, p) ==
    IF p > Len(s) THEN <<>>
    ELSE IF StartsWithAt(s, p, Pattern1Prefix)
            /\ NameRunEnd(s, p + 6) >= p + 6
         THEN LET e == NameRunEnd(s, p + 6)
              IN  <<SubSeq(s, p + 6, e)>> \o FindAll1From(s, e + 1)
         ELSE FindAll1From(s, p + 1)

\* re.findall(pattern2, s) scanning from p.  '>' is outside [A-Z_], so the
\* pattern matches at p exactly when the maximal run is followed by '>'.
RECURSIVE FindAll2From(_, _)
FindAll2From(s, p) ==
    IF p > Len(s) THEN <<>>
    ELSE IF StartsWithAt(s, p, Pattern2Prefix)
            /\ NameRunEnd(s, p + 6) >= p + 6
            /\ StartsWithAt(s, NameRunEnd(s, p + 6) + 1, Pattern2Suffix)
         THEN LET e == NameRunEnd(s, p + 6)
              IN  <<SubSeq(s, p + 6, e)>> \o FindAll2From(s, e + 2)
         ELSE FindAll2From(s, p + 1)

matches1(s) == FindAll1From(s, 1)

matches2(s) == FindAll2From(s, 1)

Range(f) == {f[i] : i \in DOMAIN f}

\* set(matches1 + matches2): the distinct discovered names.
all_matches(s) == Range(matches1(s) \o matches2(s))

\* str.replace(old, new) from position p: every non-overlapping occurrence
\* of the non-empty string old, left to right.
RECURSIVE StrReplaceFrom(_, _, _, _)
StrReplaceFrom(s, p, old, new) ==
    IF p > Len(s) THEN <<>>
    ELSE IF StartsWithAt(s, p, old)
         THEN new \o StrReplaceFrom(s, p + Len(old), old, new)
         ELSE <<s[p]>> \o StrReplaceFrom(s, p + 1, old, new)

StrReplace(s, old, new) == StrReplaceFrom(s, 1, old, new)

\* os.getenv(name) on the environment env (a function from the set names to
\* their values): None when the variable is unset.
getenv(env, name) == IF name \in DOMAIN env THEN env[name] ELSE None

\* Python truthiness of an optional string: None and "" are falsy.
Truthy(v) == v /= None /\ v /= <<>>

\* One iteration of the loop over all_matches.
ReplaceOne(s, env, secret_name) ==
    IF Truthy(getenv(env, secret_name))
    THEN StrReplace(StrReplace(s, Pattern1Prefix \o secret_name,
                               getenv(env, secret_name)),
                    Pattern2Prefix \o secret_name \o Pattern2Suffix,
                    getenv(env, secret_name))
    ELSE s

\* The loop over the names in the order the list was built in.
RECURSIVE ReplaceInOrder(_, _, _)
ReplaceInOrder(s, env, order) ==
    IF order = <<>> THEN s
    ELSE ReplaceInOrder(ReplaceOne(s, env, Head(order)), env, Tail(order))

\* list(set(...)): the iteration order of a set of strings is not fixed
\* (string hashing is randomized per process), so every order can occur.
Orders(S) ==
    {o \in [1..Cardinality(S) -> S] : \A i, j \in DOMAIN o : i /= j => o[i] /= o[j]}

\* The results replace_secret_placeholders(command_str) can produce.
replace_secret_placeholders(command_str, env) ==
    {ReplaceInOrder(command_str, env, o) : o \in Orders(all_matches(command_str))}

\* ------------------------------------------------------------ shlex.split

\* shlex's character classes in POSIX mode; with whitespace_split set every
\* other character is a word character.
Whitespace == {" ", "\t", "\r", "\n"}

Quotes == {"'", "\""}

Escape == {"\\"}

EscapedQuotes == {"\""}

\* The lexer's state None, after the end of input.
StateNone == "None"

\* shlex.read_token: the lexer is in state `state` (" ", "a", a quote, the
\* escape character, or StateNone) at position p.  The
\* result is the token (None at the end of input), the lexer's next state and
\* position, or an error (ValueError: no closing quotation / no escaped
\* character).
RECURSIVE read_token(_, _, _, _, _, _)
read_token(s, p, state, token, quoted, escapedstate) ==
    LET eof == p > Len(s)
        nextchar == IF eof THEN "" ELSE s[p]
        Break(tok, st, np, q) ==
            [err |-> FALSE,
             token |-> IF ~q /\ tok = <<>> THEN None ELSE tok,
             state |-> st, p |-> np]
        Raise == [err |-> TRUE, token |-> None, state |-> state, p |-> p]
    IN
    IF state = StateNone THEN Break(<<>>, StateNone, p, quoted)
    ELSE IF state = " " THEN
        IF eof THEN Break(token, StateNone, p, quoted)
        ELSE IF nextchar \in Whitespace THEN
            IF token /= <<>> \/ quoted
            THEN Break(token, state, p + 1, quoted)
            ELSE read_token(s, p + 1, state, token, quoted, escapedstate)
        ELSE IF nextchar \in Escape THEN
            read_token(s, p + 1, nextchar, token, quoted, "a")
        ELSE IF nextchar \in Quotes THEN
            read_token(s, p + 1, nextchar, token, quoted, escapedstate)
        ELSE read_token(s, p + 1, "a", <<nextchar>>, quoted, escapedstate)
    ELSE IF state \in Quotes THEN
        IF eof THEN Raise
        ELSE IF nextchar = state THEN
            read_token(s, p + 1, "a", token, TRUE, escapedstate)
        ELSE IF nextchar \in Escape /\ state \in EscapedQuotes THEN
            read_token(s, p + 1, nextchar, token, TRUE, state)
        ELSE read_token(s, p + 1, state, Append(token, nextchar), TRUE,
                        escapedstate)
    ELSE IF state \in Escape THEN
        IF eof THEN Raise
        ELSE read_token(s, p + 1, escapedstate,
                        (IF escapedstate \in Quotes /\ nextchar /= state
                            /\ nextchar /= escapedstate
                         THEN Append(token, state) ELSE token)
                            \o <<nextchar>>,
                        quoted, escapedstate)
    ELSE \* state = "a"
        IF eof THEN Break(token, StateNone, p, quoted)
        ELSE IF nextchar \in Whitespace THEN
            IF token /= <<>> \/ quoted
            THEN Break(token, " ", p + 1, quoted)
            ELSE read_token(s, p + 1, " ", token, quoted, escapedstate)
        ELSE IF nextchar \in Quotes THEN
            read_token(s, p + 1, nextchar, token, quoted, escapedstate)
        ELSE IF nextchar \in Escape THEN
            read_token(s, p + 1, nextchar, token, quoted, "a")
        ELSE read_token(s, p + 1, state, Append(token, nextchar), quoted,
                        escapedstate)

\* list(lex): tokens are read until the lexer returns None.
RECURSIVE shlex_tokens(_, _, _)
shlex_tokens(s, p, state) ==
    LET t == read_token(s, p, state, <<>>, FALSE, " ")
    IN  IF t.err THEN [err |-> TRUE, parts |-> <<>>]
        ELSE IF t.token = None THEN [err |-> FALSE, parts |-> <<>>]
        ELSE LET rest == shlex_tokens(s, t.p, t.state)
             IN  [err |-> rest.err,
                  parts |-> IF rest.err THEN <<>> ELSE <<t.token>> \o rest.parts]

shlex_split(s) == shlex_tokens(s, 1, " ")

\* parse_command: ValueError (err) when shlex fails or yields no token.
parse_command(command_str) ==
    LET r == shlex_split(command_str)
    IN  IF r.err \/ r.parts = <<>>
        THEN [err |-> TRUE, command |-> None, args |-> <<>>]
        ELSE [err |-> FALSE, command |-> r.parts[1],
              args |-> IF Len(r.parts) > 1 THEN Tail(r.parts) ELSE <<>>]

\* ------------------------------------------------------------------ state

VARIABLES
    environ,             \* os.environ: variable name -> value
    pc,                  \* position of main() (and of the call it awaits)
    access_token,        \* PortAPIClient.access_token
    mcp_servers,         \* the list get_all_mcp_servers returned
    idx,                 \* enumerate index of the server being processed
    total_tools_synced,
    servers_processed,
    servers_skipped,
    servers_failed,
    command_str,         \* extract_tools_from_mcp: command after replacement
    tools_result,        \* the tool descriptors list_tools() replied
    tools,               \* the list extract_tools_from_mcp returned
    tool_i,              \* index in tools of the next create_tool_entity call
    proc,                \* subprocess of stdio_client: "none" or "running"
    session,             \* ClientSession: "closed" or "open"
    exit_code,           \* the status the process exits with
    requests,            \* requests sent to Port and subprocesses spawned
    visited,             \* per visited server: index, outcome, tools listed
    r_pc,                \* ResolveSpec: "off", "input", "applied", "reapplied"
    r_in,                \* ResolveSpec: the command string given
    r_out,               \* ResolveSpec: replace_secret_placeholders(r_in)
    r_out2               \* ResolveSpec: replace_secret_placeholders(r_out)

counters ==
    <<total_tools_synced, servers_processed, servers_skipped, servers_failed>>

batch_vars ==
    <<pc, access_token, mcp_servers, idx, counters, command_str,
      tools_result, tools, tool_i, proc, session, exit_code, requests,
      visited>>

resolve_vars == <<r_pc, r_in, r_out, r_out2>>

vars == <<environ, batch_vars, resolve_vars>>

\* ------------------------------------------- replace_secret_placeholders

\* Fragments the command strings of ResolveSpec are concatenated from.
Fragments ==
    {<<"Y", "O", "U", "R", "_", "_", "A">>,
     <<"Y", "O", "U", "R", "_", "_", "B">>,
     <<"Y", "O", "U", "R", "_", "_", "A", "B">>,
     <<"<", "Y", "O", "U", "R", "_", "A", ">">>,
     <<"<", "Y", "O", "U", "R", "_", "A", "B", ">">>,
     <<" ">>}

RECURSIVE Concat(_)
Concat(ss) == IF ss = <<>> THEN <<>> ELSE Head(ss) \o Concat(Tail(ss))

CommandStrings ==
    {Concat(fs) : fs \in UNION {[1..n -> Fragments] : n \in 0..MaxFrags}}

\* Names and values of the environment variables of ResolveSpec.
EnvNames == {<<"A">>, <<"B">>, <<"A", "B">>}

EnvValues == {<<>>, <<"v">>}

Environments == UNION {[D -> EnvValues] : D \in SUBSET EnvNames}

BatchIdle ==
    /\ pc = "off"
    /\ access_token = None
    /\ mcp_servers = <<>>
    /\ idx = 0
    /\ total_tools_synced = 0
    /\ servers_processed = 0
    /\ servers_skipped = 0
    /\ servers_failed = 0
    /\ command_str = None
    /\ tools_result = <<>>
    /\ tools = <<>>
    /\ tool_i = 0
    /\ proc = "none"
    /\ session = "closed"
    /\ exit_code = 0
    /\ requests = <<>>
    /\ visited = <<>>

ResolveInit ==
    /\ environ \in Environments
    /\ r_in \in CommandStrings
    /\ r_pc = "input"
    /\ r_out = None
    /\ r_out2 = None
    /\ BatchIdle

\* replace_secret_placeholders(r_in)
Resolve ==
    /\ r_pc = "input"
    /\ r_out' \in replace_secret_placeholders(r_in, environ)
    /\ r_pc' = "applied"
    /\ UNCHANGED <<environ, batch_vars, r_in, r_out2>>

\* replace_secret_placeholders applied to its own result
ResolveAgain ==
    /\ r_pc = "applied"
    /\ r_out2' \in replace_secret_placeholders(r_out, environ)
    /\ r_pc' = "reapplied"
    /\ UNCHANGED <<environ, batch_vars, r_in, r_out>>

ResolveNext == Resolve \/ ResolveAgain

ResolveSpec == ResolveInit /\ [][ResolveNext]_vars

\* Number of elements of the sequence seq equal to x.
RECURSIVE Count(_, _)
Count(seq, x) ==
    IF seq = <<>> THEN 0
    ELSE (IF Head(seq) = x THEN 1 ELSE 0) + Count(Tail(seq), x)

\* C9: replace_secret_placeholders is idempotent on its output: applied to
\* its own result it returns the identical string.
C9_IdempotentOnOutput == r_pc = "reapplied" => r_out2 = r_out

\* C10: for every discovered name whose environment variable is absent,
\* every placeholder occurrence of that name, in both spellings, is still a
\* placeholder occurrence of that name in the output.
C10_UnresolvedPreserved ==
    r_pc = "applied" =>
        \A n \in all_matches(r_in) :
            getenv(environ, n) = None =>
                /\ Count(matches1(r_out), n) >= Count(matches1(r_in), n)
                /\ Count(matches2(r_out), n) >= Count(matches2(r_in), n)

\* The name of the placeholder that starts at position p of s (pattern2,
\* then pattern1), None when none starts there; and the position after it.
PlaceholderAt(s, p) ==
    LET e == NameRunEnd(s, p + 6)
    IN  IF /\ StartsWithAt(s, p, Pattern2Prefix)
           /\ e >= p + 6
           /\ StartsWithAt(s, e + 1, Pattern2Suffix)
        THEN [name |-> SubSeq(s, p + 6, e), next |-> e + 2]
        ELSE IF StartsWithAt(s, p, Pattern1Prefix) /\ e >= p + 6
        THEN [name |-> SubSeq(s, p + 6, e), next |-> e + 1]
        ELSE [name |-> None, next |-> p + 1]

\* The string in which every placeholder of s whose variable is set stands
\* replaced by the variable's value, all other text unchanged.
RECURSIVE EveryOccurrenceReplaced(_, _, _)
EveryOccurrenceReplaced(s, p, env) ==
    IF p > Len(s) THEN <<>>
    ELSE LET m == PlaceholderAt(s, p)
         IN  IF m.name /= None /\ getenv(env, m.name) /= None
             THEN getenv(env, m.name) \o EveryOccurrenceReplaced(s, m.next, env)
             ELSE <<s[p]>> \o EveryOccurrenceReplaced(s, p + 1, env)

\* C11: resolved placeholders are replaced everywhere.  For every discovered
\* name whose environment variable is set, every placeholder occurrence of
\* the name, in both spellings, is replaced by the variable's value (stated
\* for the strings whose discovered names are all set to a non-empty value).
C11_ResolvedReplacedEverywhere ==
    (/\ r_pc = "applied"
     /\ \A n \in all_matches(r_in) : Truthy(getenv(environ, n)))
        => r_out = EveryOccurrenceReplaced(r_in, 1, environ)

\* C16: the result does not depend on the order in which the distinct names
\* are processed: every order of the name set gives the output obtained.
C16_OrderIndependent ==
    r_pc = "applied" =>
        \A o \in Orders(all_matches(r_in)) :
            ReplaceInOrder(r_in, environ, o) = r_out

\* ------------------------------------------------------------ batch inputs

\* Number of server records the registry returns.
MaxServers == 2

\* The command strings of the server records: no command, "", " ",
\* "\"a" (unbalanced quote) and "a YOUR__A".
ServerCommands ==
    {None,
     <<>>,
     <<" ">>,
     <<"\"", "a">>,
     <<"a", " ", "Y", "O", "U", "R", "_", "_", "A">>}

\* The lists get_all_mcp_servers can return.  A server record is
\* server.get("identifier") and server.get("properties", {}).get("command").
ServerLists ==
    UNION {{[i \in 1..n |-> [identifier |-> i, command |-> cs[i]]] :
                cs \in [1..n -> ServerCommands]} : n \in 0..MaxServers}

\* Environments of the batch run: A unset, A = "v", A = "\"".
BatchEnvironments ==
    {<<>>, <<"A">> :> <<"v">>, <<"A">> :> <<"\"">>}

\* Tool descriptors a subprocess lists: name, description (None when
\* absent) and, when the attribute is present, inputSchema.
ToolDescriptors ==
    {[name |-> <<"G", " ", "w">>, description |-> None, inputSchema |-> <<"schema">>],
     [name |-> <<"l", "-", "F">>, description |-> <<"d">>]}

\* The replies to list_tools.
ToolLists ==
    {<<>>}
    \cup {<<d>> : d \in ToolDescriptors}
    \cup {ds \in ToolDescriptors \X ToolDescriptors : ds[1] /= ds[2]}

\* ------------------------------------------------------- tool normalisation

Uppers ==
    <<"A", "B", "C", "D", "E", "F", "G", "H", "I", "J", "K", "L", "M",
      "N", "O", "P", "Q", "R", "S", "T", "U", "V", "W", "X", "Y", "Z">>

Lowers ==
    <<"a", "b", "c", "d", "e", "f", "g", "h", "i", "j", "k", "l", "m",
      "n", "o", "p", "q", "r", "s", "t", "u", "v", "w", "x", "y", "z">>

\* str.lower() of one character.
LowerChar(c) ==
    IF c \in UpperChars THEN Lowers[CHOOSE i \in DOMAIN Uppers : Uppers[i] = c]
    ELSE c

\* Variant of tool_identifier: hyphens are kept.
tool_identifier_keepsHyphens(name) ==
    StrReplace([i \in DOMAIN name |-> LowerChar(name[i])], <<" ">>, <<"_">>)

\* tool.name.lower().replace(' ', '_').replace('-', '_')
tool_identifier(name) ==
    StrReplace(StrReplace([i \in DOMAIN name |-> LowerChar(name[i])],
                          <<" ">>, <<"_">>),
               <<"-">>, <<"_">>)

\* The dict appended to tools_data for one listed tool; {} is the empty
\* function.
tool_data(tool) ==
    [identifier |-> tool_identifier(tool.name),
     title |-> tool.name,
     properties |->
        [name |-> tool.name,
         description |-> IF Truthy(tool.description) THEN tool.description
                         ELSE <<>>,
         parameters |-> IF "inputSchema" \in DOMAIN tool THEN tool.inputSchema
                        ELSE <<>>]]

tools_data(listed) == [i \in DOMAIN listed |-> tool_data(listed[i])]

\* Variant of tool_names: the titles in reverse order.
tool_names_reversed(ts) == [i \in DOMAIN ts |-> ts[Len(ts) + 1 - i].title]

\* tool_names = [tool["title"] for tool in tools]
tool_names(ts) == [i \in DOMAIN ts |-> ts[i].title]

\* ---------------------------------------------------------------- main()

\* The state at line 259: both credentials are set, the client is built.
Init ==
    /\ environ \in BatchEnvironments
    /\ pc = "get_servers"
    /\ access_token = None
    /\ mcp_servers = <<>>
    /\ idx = 0
    /\ total_tools_synced = 0
    /\ servers_processed = 0
    /\ servers_skipped = 0
    /\ servers_failed = 0
    /\ command_str = None
    /\ tools_result = <<>>
    /\ tools = <<>>
    /\ tool_i = 0
    /\ proc = "none"
    /\ session = "closed"
    /\ exit_code = 0
    /\ requests = <<>>
    /\ visited = <<>>
    /\ r_pc = "off"
    /\ r_in = <<>>
    /\ r_out = None
    /\ r_out2 = None

extract_vars == <<command_str, tools_result, tools, tool_i, proc, session>>

\* The access token Port returns.
Token == <<"t", "o", "k", "e", "n">>

\* `if not self.access_token:` of lines 45, 76 and 103.
NeedsAuthenticate == ~Truthy(access_token)

\* Variant of LazyAuthenticate: authenticate is called before every publish
\* call, the cached token is not looked at.
LazyAuthenticate_always ==
    Append(requests, [op |-> "authenticate", ok |-> TRUE])

\* Lines 76-77 and 103-104: the requests sent once create_tool_entity or
\* update_server_tools has made sure of a token (authenticate is called
\* only when none is cached).
LazyAuthenticate ==
    IF NeedsAuthenticate
    THEN Append(requests, [op |-> "authenticate", ok |-> TRUE])
    ELSE requests

\* access_token after that.
TokenAfterLazyAuthenticate == IF NeedsAuthenticate THEN Token ELSE access_token

\* PortAPIClient.authenticate succeeds, called from get_all_mcp_servers
\* while access_token is not set.
AuthenticateOk ==
    /\ pc = "get_servers"
    /\ NeedsAuthenticate
    /\ access_token' = Token
    /\ requests' = Append(requests, [op |-> "authenticate", ok |-> TRUE])
    /\ UNCHANGED <<environ, pc, mcp_servers, idx, counters, extract_vars,
                   exit_code, visited, resolve_vars>>

\* authenticate raises: the error reaches main's outer handler, exit 1.
AuthenticateFail ==
    /\ pc = "get_servers"
    /\ NeedsAuthenticate
    /\ requests' = Append(requests, [op |-> "authenticate", ok |-> FALSE])
    /\ pc' = "exit_fatal"
    /\ exit_code' = 1
    /\ UNCHANGED <<environ, access_token, mcp_servers, idx, counters,
                   extract_vars, visited, resolve_vars>>

\* get_all_mcp_servers returns the entities; main returns at once when the
\* list is empty, else it zeroes the counters and enters the loop.
GetServersOk ==
    /\ pc = "get_servers"
    /\ ~NeedsAuthenticate
    /\ \E servers \in ServerLists :
        /\ mcp_servers' = servers
        /\ requests' = Append(requests, [op |-> "get_servers", ok |-> TRUE])
        /\ IF servers = <<>>
           THEN /\ pc' = "exit_no_servers"
                /\ exit_code' = 0
                /\ idx' = idx
           ELSE /\ pc' = "loop"
                /\ exit_code' = exit_code
                /\ idx' = 1
    /\ UNCHANGED <<environ, access_token, counters, extract_vars, visited,
                   resolve_vars>>

\* Variant of GetServersFail: the error is swallowed and the run ends as
\* with an empty list.
GetServersFail_swallowed ==
    /\ pc = "get_servers"
    /\ ~NeedsAuthenticate
    /\ requests' = Append(requests, [op |-> "get_servers", ok |-> FALSE])
    /\ pc' = "exit_no_servers"
    /\ exit_code' = 0
    /\ UNCHANGED <<environ, access_token, mcp_servers, idx, counters,
                   extract_vars, visited, resolve_vars>>

\* The fetch raises: the error reaches main's outer handler, exit 1.
GetServersFail ==
    /\ pc = "get_servers"
    /\ ~NeedsAuthenticate
    /\ requests' = Append(requests, [op |-> "get_servers", ok |-> FALSE])
    /\ pc' = "exit_fatal"
    /\ exit_code' = 1
    /\ UNCHANGED <<environ, access_token, mcp_servers, idx, counters,
                   extract_vars, visited, resolve_vars>>

\* The server the loop is at.
server == mcp_servers[idx]

\* The record of one visited server.
Visit(outcome, listed) ==
    Append(visited, [idx |-> idx, outcome |-> outcome, tools |-> listed])

\* Variant of SkipNoCommand: the server is passed over without being
\* counted.
SkipNoCommand_notCounted ==
    /\ pc = "loop"
    /\ idx <= Len(mcp_servers)
    /\ ~Truthy(server.command)
    /\ idx' = idx + 1
    /\ visited' = Visit("skipped", <<>>)
    /\ UNCHANGED <<environ, pc, access_token, mcp_servers, counters,
                   extract_vars, exit_code, requests, resolve_vars>>

\* Loop body, lines 290-301: a server without command is skipped.
SkipNoCommand ==
    /\ pc = "loop"
    /\ idx <= Len(mcp_servers)
    /\ ~Truthy(server.command)
    /\ servers_skipped' = servers_skipped + 1
    /\ idx' = idx + 1
    /\ visited' = Visit("skipped", <<>>)
    /\ UNCHANGED <<environ, pc, access_token, mcp_servers, total_tools_synced,
                   servers_processed, servers_failed, extract_vars, exit_code,
                   requests, resolve_vars>>

\* extract_tools_from_mcp, lines 183-188: the secret placeholders of the
\* server's command are replaced.
ExtractReplaceSecrets ==
    /\ pc = "loop"
    /\ idx <= Len(mcp_servers)
    /\ Truthy(server.command)
    /\ command_str' \in replace_secret_placeholders(server.command, environ)
    /\ pc' = "parse"
    /\ UNCHANGED <<environ, access_token, mcp_servers, idx, counters,
                   tools_result, tools, tool_i, proc, session, exit_code,
                   requests, visited, resolve_vars>>

\* Variant of ExtractParseCommand without the try/except: the ValueError
\* leaves the call and reaches main's handler of lines 324-327.
ExtractParseCommand_uncaught ==
    /\ pc = "parse"
    /\ IF parse_command(command_str).err
       THEN /\ pc' = "loop"
            /\ servers_failed' = servers_failed + 1
            /\ idx' = idx + 1
            /\ visited' = Visit("failed", <<>>)
       ELSE /\ pc' = "spawn"
            /\ UNCHANGED <<servers_failed, idx, visited>>
    /\ tools' = <<>>
    /\ UNCHANGED <<environ, access_token, mcp_servers, total_tools_synced,
                   servers_processed, servers_skipped, command_str, tools_result, tool_i,
                   proc, session, exit_code, requests, resolve_vars>>

\* Lines 190-197: parse_command inside try/except Exception; a parse error
\* returns [].
ExtractParseCommand ==
    /\ pc = "parse"
    /\ pc' = IF parse_command(command_str).err THEN "extracted" ELSE "spawn"
    /\ tools' = <<>>
    /\ UNCHANGED <<environ, access_token, mcp_servers, idx, counters,
                   command_str, tools_result, tool_i, proc, session, exit_code, requests,
                   visited, resolve_vars>>

\* What the spawn request records: the executable and its arguments.
SpawnRequest(ok) ==
    [op |-> "spawn", idx |-> idx, ok |-> ok,
     command |-> parse_command(command_str).command,
     args |-> parse_command(command_str).args]

\* Line 207: stdio_client starts the subprocess and opens the channel.
SpawnOk ==
    /\ pc = "spawn"
    /\ proc' = "running"
    /\ requests' = Append(requests, SpawnRequest(TRUE))
    /\ pc' = "connected"
    /\ UNCHANGED <<environ, access_token, mcp_servers, idx, counters,
                   command_str, tools_result, tools, tool_i, session, exit_code, visited,
                   resolve_vars>>

\* Line 207 raises (the executable does not exist): the except clause of
\* line 234 returns [].
SpawnFail ==
    /\ pc = "spawn"
    /\ requests' = Append(requests, SpawnRequest(FALSE))
    /\ tools' = <<>>
    /\ pc' = "extracted"
    /\ UNCHANGED <<environ, access_token, mcp_servers, idx, counters,
                   command_str, tools_result, tool_i, proc, session, exit_code, visited,
                   resolve_vars>>

\* Lines 209-211: the session is entered and initialize() is sent; the call
\* awaits the subprocess's reply.
SessionInitialize ==
    /\ pc = "connected"
    /\ session' = "open"
    /\ pc' = "await_initialize"
    /\ UNCHANGED <<environ, access_token, mcp_servers, idx, counters,
                   command_str, tools_result, tools, tool_i, proc, exit_code, requests,
                   visited, resolve_vars>>

\* The subprocess answers the handshake; list_tools() is sent (line 216).
InitializeReply ==
    /\ pc = "await_initialize"
    /\ pc' = "await_list_tools"
    /\ UNCHANGED <<environ, access_token, mcp_servers, idx, counters,
                   extract_vars, exit_code, requests, visited, resolve_vars>>

\* Variant of ExitScopes: on the fault path the subprocess is left running.
ExitScopesBroken(result) ==
    /\ session' = "closed"
    /\ proc' = IF result = <<>> THEN proc ELSE "none"
    /\ tools' = result
    /\ pc' = "extracted"

\* Leaving both `async with` blocks closes the session, the channel and the
\* subprocess; the call returns result.
ExitScopes(result) ==
    /\ session' = "closed"
    /\ proc' = "none"
    /\ tools' = result
    /\ pc' = "extracted"

\* The handshake fails (error reply, malformed reply, subprocess exited):
\* the exception leaves both scopes and line 234 returns [].
InitializeFault ==
    /\ pc = "await_initialize"
    /\ ExitScopes(<<>>)
    /\ UNCHANGED <<environ, access_token, mcp_servers, idx, counters,
                   command_str, tools_result, tool_i, exit_code, requests, visited,
                   resolve_vars>>

\* Lines 216-232: the subprocess lists its tools, each is normalised in the
\* order listed and tools_data is returned.
ListToolsReply ==
    /\ pc = "await_list_tools"
    /\ \E listed \in ToolLists :
        /\ tools_result' = listed
        /\ ExitScopes(tools_data(listed))
    /\ UNCHANGED <<environ, access_token, mcp_servers, idx, counters,
                   command_str, tool_i, exit_code, requests, visited,
                   resolve_vars>>

\* list_tools fails: as for the handshake.
ListToolsFault ==
    /\ pc = "await_list_tools"
    /\ ExitScopes(<<>>)
    /\ UNCHANGED <<environ, access_token, mcp_servers, idx, counters,
                   command_str, tools_result, tool_i, exit_code, requests, visited,
                   resolve_vars>>

\* Lines 307-308 and 321-323: a non-empty list is published, an empty one
\* counts the server as skipped.
AfterExtract ==
    /\ pc = "extracted"
    /\ IF tools /= <<>>
       THEN /\ pc' = "publish"
            /\ tool_i' = 1
            /\ UNCHANGED <<servers_skipped, idx, visited>>
       ELSE /\ pc' = "loop"
            /\ servers_skipped' = servers_skipped + 1
            /\ idx' = idx + 1
            /\ visited' = Visit("skipped", <<>>)
            /\ UNCHANGED tool_i
    /\ UNCHANGED <<environ, access_token, mcp_servers, total_tools_synced,
                   servers_processed, servers_failed, command_str, tools_result, tools,
                   proc, session, exit_code, requests, resolve_vars>>

\* The entity create_tool_entity posts: tool_data with the relation to the
\* server (line 80).
ToolEntity(tool, server_id) ==
    [identifier |-> tool.identifier, title |-> tool.title,
     properties |-> tool.properties,
     relations |-> [mcpServer |-> server_id]]

CreateRequest(ok) ==
    [op |-> "create_tool_entity", idx |-> idx, ok |-> ok,
     entity |-> ToolEntity(tools[tool_i], server.identifier)]

\* Line 312: create_tool_entity succeeds for the next tool.
CreateToolEntityOk ==
    /\ pc = "publish"
    /\ tool_i \in 1..Len(tools)
    /\ requests' = Append(LazyAuthenticate, CreateRequest(TRUE))
    /\ access_token' = TokenAfterLazyAuthenticate
    /\ tool_i' = tool_i + 1
    /\ UNCHANGED <<environ, pc, mcp_servers, idx, counters,
                   command_str, tools_result, tools, proc, session, exit_code, visited,
                   resolve_vars>>

\* Variant of CreateToolEntityFail without the handler of lines 324-327:
\* the error reaches main's outer handler and ends the run.
CreateToolEntityFail_aborts ==
    /\ pc = "publish"
    /\ tool_i \in 1..Len(tools)
    /\ requests' = Append(LazyAuthenticate, CreateRequest(FALSE))
    /\ access_token' = TokenAfterLazyAuthenticate
    /\ pc' = "exit_fatal"
    /\ exit_code' = 1
    /\ UNCHANGED <<environ, mcp_servers, idx, counters,
                   extract_vars, visited, resolve_vars>>

\* Variant of CreateToolEntityFail: the error is swallowed inside the loop
\* of line 311, which goes on with the next tool.
CreateToolEntityFail_continues ==
    /\ pc = "publish"
    /\ tool_i \in 1..Len(tools)
    /\ requests' = Append(LazyAuthenticate, CreateRequest(FALSE))
    /\ access_token' = TokenAfterLazyAuthenticate
    /\ tool_i' = tool_i + 1
    /\ UNCHANGED <<environ, pc, mcp_servers, idx, counters, command_str,
                   tools_result, tools, proc, session, exit_code, visited,
                   resolve_vars>>

\* Line 312 raises (line 99): main's handler of lines 324-327 counts the
\* server as failed and the loop goes on.
CreateToolEntityFail ==
    /\ pc = "publish"
    /\ tool_i \in 1..Len(tools)
    /\ requests' = Append(LazyAuthenticate, CreateRequest(FALSE))
    /\ access_token' = TokenAfterLazyAuthenticate
    /\ servers_failed' = servers_failed + 1
    /\ idx' = idx + 1
    /\ visited' = Visit("failed", tools)
    /\ pc' = "loop"
    /\ UNCHANGED <<environ, mcp_servers, total_tools_synced,
                   servers_processed, servers_skipped, extract_vars,
                   exit_code, resolve_vars>>

UpdateRequest(ok) ==
    [op |-> "update_server_tools", idx |-> idx, ok |-> ok,
     server_id |-> server.identifier, tool_names |-> tool_names(tools)]

\* Variant of ServerProcessed: toolsSynced counts the server, not its tools.
ServerProcessed_countsOne ==
    /\ total_tools_synced' = total_tools_synced + 1
    /\ servers_processed' = servers_processed + 1
    /\ idx' = idx + 1
    /\ visited' = Visit("processed", tools)
    /\ pc' = "loop"
    /\ UNCHANGED <<servers_skipped, servers_failed>>

\* Lines 315-320 after update_server_tools returned.
ServerProcessed ==
    /\ total_tools_synced' = total_tools_synced + Len(tools)
    /\ servers_processed' = servers_processed + 1
    /\ idx' = idx + 1
    /\ visited' = Visit("processed", tools)
    /\ pc' = "loop"
    /\ UNCHANGED <<servers_skipped, servers_failed>>

\* Line 316: update_server_tools succeeds.
UpdateServerToolsOk ==
    /\ pc = "publish"
    /\ tool_i > Len(tools)
    /\ requests' = Append(LazyAuthenticate, UpdateRequest(TRUE))
    /\ access_token' = TokenAfterLazyAuthenticate
    /\ ServerProcessed
    /\ UNCHANGED <<environ, mcp_servers, extract_vars,
                   exit_code, resolve_vars>>

\* Variant of UpdateFailure: update_server_tools re-raises, and main's
\* handler counts the server as failed.
UpdateFailureRaises ==
    /\ servers_failed' = servers_failed + 1
    /\ idx' = idx + 1
    /\ visited' = Visit("failed", tools)
    /\ pc' = "loop"
    /\ UNCHANGED <<total_tools_synced, servers_processed, servers_skipped>>

\* What main does when the PATCH of update_server_tools fails: line 126
\* does not raise, so main goes on as after a success.
UpdateFailure == ServerProcessed

\* Line 316: the PATCH fails.
UpdateServerToolsFail ==
    /\ pc = "publish"
    /\ tool_i > Len(tools)
    /\ requests' = Append(LazyAuthenticate, UpdateRequest(FALSE))
    /\ access_token' = TokenAfterLazyAuthenticate
    /\ UpdateFailure
    /\ UNCHANGED <<environ, mcp_servers, extract_vars,
                   exit_code, resolve_vars>>

\* Variant of SummaryExitCode: skipped servers also make the run fail.
SummaryExitCodeCountingSkipped(failed, skipped) ==
    IF failed > 0 \/ skipped > 0 THEN 1 ELSE 0

\* sys.exit status after the summary, lines 340-341.
SummaryExitCode(failed, skipped) == IF failed > 0 THEN 1 ELSE 0

\* Lines 329-341: the loop is over, the summary is printed, main exits.
Summary ==
    /\ pc = "loop"
    /\ idx > Len(mcp_servers)
    /\ pc' = "exit_summary"
    /\ exit_code' = SummaryExitCode(servers_failed, servers_skipped)
    /\ UNCHANGED <<environ, access_token, mcp_servers, idx, counters,
                   extract_vars, requests, visited, resolve_vars>>

\* Steps of the program and replies of Port, which always arrive.
ProgramNext ==
    \/ AuthenticateOk
    \/ AuthenticateFail
    \/ GetServersOk
    \/ GetServersFail
    \/ SkipNoCommand
    \/ ExtractReplaceSecrets
    \/ ExtractParseCommand
    \/ SpawnOk
    \/ SpawnFail
    \/ SessionInitialize
    \/ AfterExtract
    \/ CreateToolEntityOk
    \/ CreateToolEntityFail
    \/ UpdateServerToolsOk
    \/ UpdateServerToolsFail
    \/ Summary

\* Replies of the subprocess, which may never arrive.
SubprocessNext ==
    \/ InitializeReply
    \/ InitializeFault
    \/ ListToolsReply
    \/ ListToolsFault

Next == ProgramNext \/ SubprocessNext

Spec == Init /\ [][Next]_vars

\* The event loop runs main whenever it can take a step, and every request
\* to Port ends (httpx's default timeout); session.initialize() and
\* session.list_tools() are awaited without a timeout, so nothing bounds
\* the subprocess's replies.
FairSpec == Spec /\ WF_vars(ProgramNext)

\* ----------------------------------------------------------- batch claims

\* Positions inside extract_tools_from_mcp.
ExtractPcs == {"parse", "spawn", "connected", "await_initialize",
               "await_list_tools"}

\* Positions inside the loop over mcp_servers.
LoopPcs == {"loop", "extracted", "publish"} \cup ExtractPcs

\* The last request sent is a failed request of kind op.
JustFailed(op) ==
    /\ Len(requests') = Len(requests) + 1
    /\ requests'[Len(requests')].op = op
    /\ ~requests'[Len(requests')].ok

FailedRequests(op) == {i \in DOMAIN requests : requests[i].op = op /\ ~requests[i].ok}

\* The servers are visited once each, in the order of the list.
VisitedOnceInOrder ==
    /\ \A k \in DOMAIN visited : visited[k].idx = k
    /\ pc \in LoopPcs => Len(visited) = idx - 1
    /\ pc = "exit_summary" => Len(visited) = Len(mcp_servers)

C2_BoundedWait ==
    pc \in {"await_initialize", "await_list_tools"} ~> pc = "extracted"

\* C3: extract_tools_from_mcp never raises.  The call is left only by
\* returning to main (no exception reaches main's handler, failed is not
\* incremented), and after a parse failure, a spawn failure or a handshake
\* failure the list returned is empty.
C3_ExtractNeverRaises ==
    [][(pc \in ExtractPcs /\ pc' \notin ExtractPcs) =>
            (/\ pc' = "extracted"
             /\ servers_failed' = servers_failed
             /\ idx' = idx
             /\ pc \in {"parse", "spawn", "await_initialize"} =>
                    tools' = <<>>)]_vars

\* The call returned [] for a command with an unbalanced quote.
C3_Witness ==
    /\ pc = "extracted"
    /\ shlex_split(command_str).err
    /\ tools = <<>>

\* Sum of the numbers of tools listed for the visited servers.
RECURSIVE ToolsListed(_)
ToolsListed(k) == IF k = 0 THEN 0 ELSE Len(visited[k].tools) + ToolsListed(k - 1)

WithCommand == {k \in DOMAIN mcp_servers : Truthy(mcp_servers[k].command)}

\* Every server has no command or listed at least one tool, and no request
\* to Port failed.
C4_Premise ==
    /\ \A k \in DOMAIN visited : k \in WithCommand => visited[k].tools /= <<>>
    /\ \A i \in DOMAIN requests : requests[i].ok

\* C4: batch counts without publish faults.  With N servers of which K have
\* a command that lists at least one tool and N-K have no command, and no
\* failing publish call, the run ends with processed = K, skipped = N-K,
\* failed = 0 and toolsSynced the sum of the K tool counts.
C4_BatchCounts ==
    pc = "exit_summary" /\ C4_Premise =>
        /\ servers_processed = Cardinality(WithCommand)
        /\ servers_skipped = Len(mcp_servers) - Cardinality(WithCommand)
        /\ servers_failed = 0
        /\ total_tools_synced = ToolsListed(Len(visited))

\* Such a run with K = 1, N - K = 1 and two tools synced.
C4_Witness ==
    /\ pc = "exit_summary"
    /\ C4_Premise
    /\ Cardinality(WithCommand) = 1
    /\ Len(mcp_servers) = 2
    /\ total_tools_synced = 2

\* C5: a failure of update_server_tools is not fatal.  When the update of a
\* server whose tools were all created fails, the server is counted as
\* processed, not as failed, its tools are added to toolsSynced, and a run
\* without failed create_tool_entity call still exits with status 0.
C5_SummaryWriteNonFatal ==
    [][/\ JustFailed("update_server_tools") =>
            /\ servers_processed' = servers_processed + 1
            /\ servers_failed' = servers_failed
            /\ total_tools_synced' = total_tools_synced + Len(tools)
            /\ exit_code' = exit_code
       /\ (pc' = "exit_summary" /\ FailedRequests("create_tool_entity")' = {})
            => exit_code' = 0]_vars

\* A run with a failed update that exited with status 0.
C5_Witness ==
    /\ pc = "exit_summary"
    /\ FailedRequests("update_server_tools") /= {}
    /\ servers_processed >= 1
    /\ exit_code = 0

\* C6: scoped session teardown.  Outside the `async with` blocks of
\* extract_tools_from_mcp no session and no subprocess is open: both are
\* closed when the call returns, on every path, and so before the next
\* server is processed.
C6_ScopedTeardown ==
    pc \notin {"connected", "await_initialize", "await_list_tools"} =>
        proc = "none" /\ session = "closed"

\* The call returned [] after a subprocess had been spawned for the server.
C6_Witness ==
    /\ pc = "extracted"
    /\ tools = <<>>
    /\ \E i \in DOMAIN requests :
        requests[i].op = "spawn" /\ requests[i].ok /\ requests[i].idx = idx

\* The requests made for the servers: spawns and publish calls.
ServerRequests ==
    SelectSeq(requests, LAMBDA r : r.op \in {"spawn", "create_tool_entity",
                                              "update_server_tools"})

PublishRequests(k) ==
    SelectSeq(requests, LAMBDA r : /\ r.op \in {"create_tool_entity",
                                                 "update_server_tools"}
                                   /\ r.idx = k)

\* The tools listed for server k, visited or being processed.
ListedFor(k) == IF k \in DOMAIN visited THEN visited[k].tools ELSE tools

\* C7: publish ordering.  Requests are made for the servers in the order of
\* the list; for each server the create_tool_entity calls follow the order
\* of the listing, each made only when the previous ones succeeded;
\* update_server_tools is the last call for the server, made only after a
\* successful create for every tool, with the titles in listing order.
C7_PublishOrdering ==
    /\ \A i, j \in DOMAIN ServerRequests :
        i < j => ServerRequests[i].idx <= ServerRequests[j].idx
    /\ \A k \in DOMAIN mcp_servers :
        LET E == PublishRequests(k)
            L == ListedFor(k)
        IN  /\ Len(E) <= Len(L) + 1
            /\ \A j \in DOMAIN E :
                /\ j < Len(E) => E[j].ok
                /\ IF j <= Len(L)
                   THEN /\ E[j].op = "create_tool_entity"
                        /\ E[j].entity =
                            ToolEntity(L[j], mcp_servers[k].identifier)
                   ELSE /\ E[j].op = "update_server_tools"
                        /\ E[j].server_id = mcp_servers[k].identifier
                        /\ E[j].tool_names = [i \in DOMAIN L |-> L[i].title]

\* Two servers were published in turn, the first with two tools.
C7_Witness ==
    /\ Len(PublishRequests(1)) = 3
    /\ Len(PublishRequests(2)) >= 1

\* C8: exit status.  A run that reaches the final summary exits with
\* status 1 if failed > 0 and with status 0 otherwise, whatever skipped is.
C8_ExitStatus ==
    pc = "exit_summary" => exit_code = (IF servers_failed > 0 THEN 1 ELSE 0)

\* A run with skipped servers and no failed one exited with status 0.
C8_Witness ==
    /\ pc = "exit_summary"
    /\ servers_skipped > 0
    /\ servers_failed = 0
    /\ exit_code = 0

\* The identifier a tool name normalises to: every character lowercased,
\* every space and every hyphen an underscore.
Slug(name) ==
    [i \in DOMAIN name |->
        IF name[i] \in {" ", "-"} THEN "_" ELSE LowerChar(name[i])]

\* C12: normalisation of a tool descriptor.  Every tool returned by
\* extract_tools_from_mcp is the record of the descriptor listed at the same
\* position: identifier the slug of the name, title and properties.name the
\* name, description the descriptor's or "" when absent, parameters the
\* inputSchema or the empty document when absent; and every entity
\* published carries the identifier of the server it was extracted from.
C12_Normalization ==
    /\ (pc \in {"extracted", "publish"} /\ tools /= <<>>) =>
        /\ Len(tools) = Len(tools_result)
        /\ \A i \in DOMAIN tools :
            LET d == tools_result[i]
            IN  /\ tools[i].identifier = Slug(d.name)
                /\ tools[i].title = d.name
                /\ tools[i].properties.name = d.name
                /\ tools[i].properties.description =
                    (IF d.description = None THEN <<>> ELSE d.description)
                /\ tools[i].properties.parameters =
                    (IF "inputSchema" \in DOMAIN d THEN d.inputSchema
                     ELSE <<>>)
    /\ \A i \in DOMAIN requests :
        requests[i].op = "create_tool_entity" =>
            /\ requests[i].entity.relations.mcpServer =
                mcp_servers[requests[i].idx].identifier
            /\ \E j \in DOMAIN ListedFor(requests[i].idx) :
                LET tl == ListedFor(requests[i].idx)[j]
                IN  /\ requests[i].entity.identifier = tl.identifier
                    /\ requests[i].entity.title = tl.title
                    /\ requests[i].entity.properties = tl.properties

\* A tool with a hyphen in its name, a description and no inputSchema was
\* listed second, after one with a space and no description, and the first
\* was published for the second server.
C12_Witness ==
    /\ pc = "publish"
    /\ idx = 2
    /\ Len(tools) = 2
    /\ "-" \in Range(tools_result[2].name)
    /\ "inputSchema" \notin DOMAIN tools_result[2]
    /\ " " \in Range(tools_result[1].name)
    /\ tools_result[1].description = None
    /\ tool_i = 2

\* C13: the access token is fetched once and reused.  authenticate is the
\* first request of a run and is never called again: get_all_mcp_servers,
\* create_tool_entity and update_server_tools are all sent after it, with
\* the token it returned still cached.
C13_TokenFetchedOnce ==
    /\ \A i \in DOMAIN requests :
        (requests[i].op = "authenticate") <=> (i = 1)
    /\ \A i \in DOMAIN requests :
        (i > 1 /\ requests[i].op /= "authenticate")
            => requests[1].ok /\ access_token = Token

\* A run that fetched the servers, created a tool and updated a server.
C13_Witness ==
    /\ pc = "exit_summary"
    /\ \E i, j, k \in DOMAIN requests :
        /\ requests[i].op = "get_servers"
        /\ requests[j].op = "create_tool_entity"
        /\ requests[k].op = "update_server_tools"
        /\ i < j /\ j < k

\* C14: registry authentication and fetch faults are fatal.  Once
\* authenticate or the fetch of get_all_mcp_servers has failed, the run has
\* ended with exit status 1, and no subprocess was spawned and no
\* create_tool_entity or update_server_tools call made.
C14_RegistryFaultsFatal ==
    (\E i \in DOMAIN requests :
        requests[i].op \in {"authenticate", "get_servers"} /\ ~requests[i].ok)
    => /\ pc = "exit_fatal"
       /\ exit_code = 1
       /\ proc = "none"
       /\ \A j \in DOMAIN requests :
            requests[j].op \in {"authenticate", "get_servers"}

\* The fetch failed after a successful authentication.
C14_Witness ==
    /\ pc = "exit_fatal"
    /\ Len(requests) = 2
    /\ requests[1].op = "authenticate" /\ requests[1].ok
    /\ requests[2].op = "get_servers" /\ ~requests[2].ok

\* Number of visited servers with the given outcome.
VisitedWith(outcome) ==
    Cardinality({k \in DOMAIN visited : visited[k].outcome = outcome})

\* C15: counter partition.  At every iteration boundary of the loop
\* processed + skipped + failed is the number of servers visited so far
\* (idx - 1), each visited server counted by exactly one of the three; when
\* the loop has ended the sum is the number of servers.
C15_CounterPartition ==
    pc \in LoopPcs \cup {"exit_summary"} =>
        /\ servers_processed = VisitedWith("processed")
        /\ servers_skipped = VisitedWith("skipped")
        /\ servers_failed = VisitedWith("failed")
        /\ servers_processed + servers_skipped + servers_failed = Len(visited)
        /\ pc = "loop" =>
            servers_processed + servers_skipped + servers_failed = idx - 1
        /\ pc = "exit_summary" =>
            servers_processed + servers_skipped + servers_failed
                = Len(mcp_servers)

\* The loop ended with one server of each of two kinds.
C15_Witness ==
    /\ pc = "exit_summary"
    /\ servers_skipped = 1
    /\ servers_processed + servers_failed = 1
    /\ Len(mcp_servers) = 2

\* No request is made for a server after one of its create_tool_entity
\* calls failed.
NothingAfterFailedCreate ==
    \A i, j \in DOMAIN requests :
        (/\ i < j
         /\ requests[i].op = "create_tool_entity"
         /\ ~requests[i].ok
         /\ requests[j].op \in {"create_tool_entity", "update_server_tools"})
            => requests[j].idx /= requests[i].idx

\* C17: a failing create_tool_entity ends the server's publication: failed
\* is incremented by one, processed and toolsSynced are not, the loop moves
\* to the next server, and no later create_tool_entity and no
\* update_server_tools call is made for the server.
C17_UpsertFailureEndsServer ==
    [][/\ JustFailed("create_tool_entity") =>
            /\ servers_failed' = servers_failed + 1
            /\ servers_processed' = servers_processed
            /\ total_tools_synced' = total_tools_synced
            /\ idx' = idx + 1
       /\ NothingAfterFailedCreate']_vars

\* The first of two tools of the first server failed, and the run went on
\* to its end with one request made for that server.
C17_Witness ==
    /\ pc = "exit_summary"
    /\ visited[1].outcome = "failed"
    /\ Len(visited[1].tools) = 2
    /\ Len(PublishRequests(1)) = 1
    /\ Len(visited) = 2

\* The create_tool_entity calls that succeeded.
SuccessfulCreates ==
    {i \in DOMAIN requests :
        requests[i].op = "create_tool_entity" /\ requests[i].ok}

\* C18: the reported total of tools synced is exact: at the end of a run,
\* runs with publish faults included, toolsSynced is the number of
\* create_tool_entity calls that succeeded.
C18_ToolsSyncedExact ==
    pc = "exit_summary" => total_tools_synced = Cardinality(SuccessfulCreates)

====
